---- MODULE Spec2Model ----
(***************************************************************************)
(* The CDN DNSSEC key handlers of traffic_ops_golang/cdn (CreateDNSSECKeys, *)
(* generateStoreDNSSECKeys, getCDNDeliveryServices, DeleteDNSSECKeys)       *)
(* together with dbhelpers.FinishTx and the dbhelpers lookups, as a state  *)
(* machine.  Every request is one handler execution; its position in the   *)
(* handler is pc[r].  The Riak bucket "dnssec" is the variable kv; the      *)
(* database a request queries is db[r].                                     *)
(*                                                                         *)
(* Spec        rotations, served one after the other                       *)
(* SpecAPI     rotations and deletes, served one after the other           *)
(* SpecConc    two rotations served concurrently                           *)
(* SpecLookups the dbhelpers lookups, over every outcome of their query    *)
(* SpecKeySet  the CDN's new key set (lines 77-101), over bundles and ttls *)
(***************************************************************************)
EXTENDS Integers, Sequences, FiniteSets, TLC

(* ------------------------------ bounds -------------------------------- *)

\* number of handler executions in one behaviour
NumReqs == 2

\* effective dates and clock readings range over 1..MaxTime; the keys found
\* in the store were made at time 0
MaxTime == 2

\* longest KSK / ZSK sequence of the CDN entry of a bundle found in the store
MaxOldKeys == 2

\* most delivery services a CDN has in the database
MaxDS == 1

\* the ids a lookup is asked about, and the ids a row holds, are 0..MaxID
MaxID == 2

(* ------------------------- program constants -------------------------- *)

CDNDNSSECKeyType == "dnssec"

DNSSECStatusExisting == "existing"

DNSSECStatusNew == "new"

\* api.ApiChange, the level of a change-log row
ApiChange == "APICHANGE"

StatusOK == 200

StatusBadRequest == 400

StatusInternalServerError == 500

\* time.Hour * 24, in seconds
SecondsPerDay == 86400

\* time.Second: a time.Duration counts nanoseconds
Second == 1000000000

(* ------------------------------ values -------------------------------- *)

Reqs == 1 .. NumReqs

Times == 1 .. MaxTime

CDNName == "cdn-a"

CDNNames == {CDNName}

CDNDomain == "cdn.example"

DSNamePool == <<"ds1", "ds2", "ds3">>

DSNames == {DSNamePool[i] : i \in 1 .. MaxDS}

\* what the type table can hold for a delivery service
DSTypeStrs == {"HTTP", "DNS", "ANY_MAP"}

DSTypeInvalid == "INVALID"

KSKDays == {365}

ZSKDays == {30}

\* the nil error, and an error as the list of the parts of its message
NoErr == << >>

NoDate == -1

EmptyMap == [x \in {} |-> x]

MapPut(m, k, v) ==
    [x \in (DOMAIN m) \cup {k} |-> IF x = k THEN v ELSE m[x]]

Range(s) == {s[i] : i \in DOMAIN s}

(* ------------------ uint64, int64 and time.Duration -------------------- *)
(* A 64-bit quantity is written in base 10^9 as four digits, the most       *)
(* significant first, so that values beyond 2^31 can be computed with.     *)

Base == Second

U64(n) == <<0, 0, 0, n>>

\* 2^63 and 2^64
Two63 == <<0, 9, 223372036, 854775808>>

Two64 == <<0, 18, 446744073, 709551616>>

\* a >= b, digit by digit
NumGeq(a, b) ==
    LET differ == {i \in 1 .. 4 : a[i] # b[i]}
        first == CHOOSE i \in differ : \A j \in differ : i <= j
    IN  differ = {} \/ a[first] > b[first]

\* a - b for a >= b, with the borrows
NumSub(a, b) ==
    LET d4 == a[4] - b[4]
        c4 == IF d4 < 0 THEN 1 ELSE 0
        d3 == a[3] - b[3] - c4
        c3 == IF d3 < 0 THEN 1 ELSE 0
        d2 == a[2] - b[2] - c3
        c2 == IF d2 < 0 THEN 1 ELSE 0
        d1 == a[1] - b[1] - c2
    IN  <<d1, d2 + c2 * Base, d3 + c3 * Base, d4 + c4 * Base>>

\* the 64 bits of n: n modulo 2^64
RECURSIVE Wrap64(_)
Wrap64(n) == IF NumGeq(n, Two64) THEN Wrap64(NumSub(n, Two64)) ELSE n

\* the int64 with the bits of n < 2^64, as sign and magnitude
Int64(n) ==
    IF NumGeq(n, Two63) THEN [neg |-> TRUE, mag |-> NumSub(Two64, n)]
                        ELSE [neg |-> FALSE, mag |-> n]

\* the uint64 with the bits of the int64 i
Uint64(i) ==
    IF i.neg /\ i.mag # U64(0) THEN NumSub(Two64, i.mag) ELSE i.mag

\* time.Duration(seconds) * time.Second: the int64 product, which wraps
SecondsToDuration(seconds) ==
    Int64(Wrap64(<<seconds[2], seconds[3], seconds[4], 0>>))

\* uint64(d / time.Second): the quotient truncated toward zero
DurationToSeconds(d) ==
    Uint64([neg |-> d.neg, mag |-> <<0, d.mag[1], d.mag[2], d.mag[3]>>])

\* the ttl of a request, in seconds
TTLs == {U64(60)}

\* a ttl beyond the seconds a time.Duration can count: 9223372037 > 2^63 / 10^9
LongTTL == <<0, 0, 9, 223372037>>

(* ------------------------- lib/go-tc key types ------------------------- *)

\* tc.DNSSECKey: one key record
DNSSECKey(zone, kind, material, status, inception, expiration, ttl) ==
    [name |-> zone, kind |-> kind, material |-> material, status |-> status,
     inception |-> inception, expiration |-> expiration, ttl |-> ttl]

\* tc.DNSSECKeySet{a, b}: the unkeyed literal, fields in declaration order
DNSSECKeySet(a, b) == [ZSK |-> a, KSK |-> b]

\* the zero value of tc.DNSSECKeySet (what a missing map entry reads as)
ZeroKeySet == DNSSECKeySet(<< >>, << >>)

(* --------------------- what the KV store can hold ---------------------- *)

\* a head key some earlier generation left in the store
OldHeads(kind) ==
    {DNSSECKey(CDNName, kind, "old1", DNSSECStatusNew, 0, MaxTime, U64(30)),
     DNSSECKey(CDNName, kind, "old1", DNSSECStatusNew, 0, 1, U64(30)),
     DNSSECKey(CDNName, kind, "old1", DNSSECStatusExisting, 0, MaxTime, U64(30))}

\* an older generation behind the head
OldTail(kind) ==
    DNSSECKey(CDNName, kind, "old0", DNSSECStatusExisting, 0, 0, U64(30))

OldSeqs(kind) ==
    {<< >>} \cup
    {[i \in 1 .. n |-> IF i = 1 THEN h ELSE OldTail(kind)] :
        h \in OldHeads(kind), n \in 1 .. MaxOldKeys}

StaleDSKeySet ==
    DNSSECKeySet(
        <<DNSSECKey(DSNamePool[1], "ZSK", "old1", DNSSECStatusNew, 0, 1, U64(30))>>,
        <<DNSSECKey(DSNamePool[1], "KSK", "old1", DNSSECStatusNew, 0, 1, U64(30))>>)

\* bundles (tc.DNSSECKeys) another writer may have left under the CDN's key
InitBundles ==
    LET cdnSets == {DNSSECKeySet(z, k) : z \in OldSeqs("ZSK"), k \in OldSeqs("KSK")}
    IN  {[x \in {CDNName} |-> s] : s \in cdnSets}
        \cup {MapPut([x \in {CDNName} |-> s], DSNamePool[1], StaleDSKeySet) : s \in cdnSets}
        \cup {[x \in {DSNamePool[1]} |-> StaleDSKeySet], EmptyMap}

InitKV ==
    {EmptyMap} \cup {[c \in CDNNames |-> b] : b \in InitBundles}

(* ---------------------- what the database can hold --------------------- *)

\* deliveryservice_regex rows of one delivery service
MatchListChoices ==
    {<< >>, <<[type |-> "HOST_REGEXP", pattern |-> ".*\\.ds\\..*"]>>}

\* the rows of the join of getCDNDeliveryServices, in xml_id order
RowSeqs ==
    UNION {[1 .. n -> DSTypeStrs] : n \in 0 .. MaxDS}

DBRows(types) ==
    [i \in 1 .. Len(types) |->
        [xml_id |-> DSNamePool[i], protocol |-> 0, type |-> types[i],
         routing_name |-> "cdn", cdn_domain |-> CDNDomain]]

\* the delivery services of the CDN and the match lists of some of them
DBStates ==
    UNION {{[rows |-> DBRows(t), matchLists |-> ml] :
                ml \in UNION {[S -> MatchListChoices] :
                                S \in SUBSET {DSNamePool[i] : i \in 1 .. Len(t)}}} :
           t \in RowSeqs}

NoDB == [rows |-> << >>, matchLists |-> EmptyMap]

(* ------------------------------- state --------------------------------- *)

VARIABLES
    kv,          \* Riak bucket "dnssec": CDN name -> bundle
    pc,          \* where each handler execution stands
    db,          \* the database as the request's queries find it
    req,         \* the parsed tc.CDNDNSSECGenerateReq
    tx,          \* inf.Tx: "nil", "open", "committed", "rolledback"
    commitTx,    \* *inf.CommitTx
    newKeys,     \* generateStoreDNSSECKeys' newKeys
    dses,        \* the result of getCDNDeliveryServices
    matchLists,  \* the result of GetDeliveryServicesMatchLists
    resp,        \* what the handler wrote: status code, logged system error
    kvAtCall,    \* history: whether generateStoreDNSSECKeys was called, for
                 \* which CDN, and the store as it was at the call
    cluster,     \* DeleteDNSSECKeys' riakCluster: "none", "obtained",
                 \* "startfailed", "started", "stopped"
    txLog,       \* the change-log rows inserted in inf.Tx, not yet committed
    changeLog,   \* the committed rows of the change log (table log)
    lookup       \* the last dbhelpers lookup made: function, query outcome, result
\* resp, kvAtCall, tx, commitTx and cluster of a finished request are kept
\* until a next one starts

vars == <<kv, pc, db, req, tx, commitTx, newKeys, dses, matchLists, resp, kvAtCall,
          cluster, txLog, changeLog, lookup>>

NoReq == [key |-> "", ttl |-> U64(0), kExpDays |-> 0, zExpDays |-> 0, effectiveDate |-> NoDate]

NoDSes == [dses |-> << >>, cdnDomain |-> ""]

NoResp == [code |-> 0, sysErr |-> NoErr]

NoCall == [called |-> FALSE, cdnName |-> "", kv |-> EmptyMap]

NoLookup == [fn |-> "", arg |-> << >>, q |-> [err |-> "", dest |-> << >>],
             res |-> [vals |-> << >>, found |-> FALSE, err |-> NoErr]]

Init ==
    /\ kv \in InitKV
    /\ pc = [r \in Reqs |-> "idle"]
    /\ db = [r \in Reqs |-> NoDB]
    /\ req = [r \in Reqs |-> NoReq]
    /\ tx = [r \in Reqs |-> "nil"]
    /\ commitTx = [r \in Reqs |-> FALSE]
    /\ newKeys = [r \in Reqs |-> EmptyMap]
    /\ dses = [r \in Reqs |-> NoDSes]
    /\ matchLists = [r \in Reqs |-> EmptyMap]
    /\ resp = [r \in Reqs |-> NoResp]
    /\ kvAtCall = [r \in Reqs |-> NoCall]
    /\ cluster = [r \in Reqs |-> "none"]
    /\ txLog = [r \in Reqs |-> << >>]
    /\ changeLog = << >>
    /\ lookup = NoLookup

(* -------------------- dbhelpers (src/unnamed/part_001) ------------------ *)

\* FinishTx with the test of the commit flag lost
FinishTxAlwaysCommits(t, commit) ==
    IF t = "nil" THEN "nil" ELSE "committed"

\* FinishTx / FinishTxX: what becomes of the transaction t when the deferred
\* finish runs with the commit flag as it then is
FinishTx(t, commit) ==
    IF t = "nil" THEN "nil"
    ELSE IF ~commit THEN "rolledback"
    ELSE "committed"

\* tx.Commit() of FinishTxX, whose error is dropped: a commit the database
\* refuses commits nothing
TxEnd(attempt, commitFails) ==
    IF attempt = "committed" /\ commitFails THEN "commitfailed" ELSE attempt

(* ------------- generateStoreDNSSECKeys: the CDN's own keys ------------- *)

\* DemoteHead without the assignment of the status (lines 89 and 96)
DemoteHeadKeepsStatus(keys, ttl, effectiveDateUnix) ==
    IF Len(keys) > 0
    THEN Append(keys, [keys[1] EXCEPT !.ttl = DurationToSeconds(ttl),
                                      !.expiration = effectiveDateUnix])
    ELSE keys

\* lines 87-93 (KSK) and 94-100 (ZSK): a copy of the head, demoted, is appended
DemoteHead(keys, ttl, effectiveDateUnix) ==
    IF Len(keys) > 0
    THEN Append(keys, [keys[1] EXCEPT !.status = DNSSECStatusExisting,
                                      !.ttl = DurationToSeconds(ttl),
                                      !.expiration = effectiveDateUnix])
    ELSE keys

\* oldKeyCDN, oldKeyCDNExists := oldKeys[cdnName]
OldKeyCDN(oldKeys, cdnName) ==
    IF cdnName \in DOMAIN oldKeys THEN oldKeys[cdnName] ELSE ZeroKeySet

\* lines 77 and 85-101: newKeys[cdnName]
NewCDNKeySet(oldKeys, cdnName, ttlSeconds, effectiveDateUnix) ==
    LET oldKeyCDN == OldKeyCDN(oldKeys, cdnName)
        ttl == SecondsToDuration(ttlSeconds)
    IN  DNSSECKeySet(DemoteHead(oldKeyCDN.ZSK, ttl, effectiveDateUnix),
                     DemoteHead(oldKeyCDN.KSK, ttl, effectiveDateUnix))

(* ----------------------- getCDNDeliveryServices ------------------------ *)

\* tc.DSTypeFromString
DSTypeFromString(s) ==
    IF s \in DSTypeStrs THEN s ELSE DSTypeInvalid

IsHTTP(t) == t \in {"HTTP"}

IsDNS(t) == t \in {"DNS"}

\* line 170: rows.Scan(&ds.Name, &ds.Protocol, dsTypeStr, &ds.RoutingName,
\* &cdnDomain).  The third destination is the string itself, not a pointer to
\* it: database/sql assigns the first two columns, then fails on column 2
\* ("destination not a pointer"); dsTypeStr, passed by value, stays "".
RowsScan(row) ==
    [err |-> <<"sql: Scan error on column index 2: destination not a pointer">>,
     Name |-> row.xml_id, Protocol |-> row.protocol, dsTypeStr |-> "",
     RoutingName |-> "", cdnDomain |-> ""]

\* lines 165-180: the loop over the rows, from row i on
RECURSIVE ScanCDNDS(_, _, _)
ScanCDNDS(rows, i, acc) ==
    IF i > Len(rows)
    THEN [dses |-> acc.dses, cdnDomain |-> acc.cdnDomain, err |-> NoErr]
    ELSE LET s == RowsScan(rows[i])
             dsType == DSTypeFromString(s.dsTypeStr)
         IN  IF s.err # NoErr
             THEN [dses |-> << >>, cdnDomain |-> "",
                   err |-> <<"scanning cdn delivery services: ">> \o s.err]
             ELSE IF dsType = DSTypeInvalid
             THEN [dses |-> << >>, cdnDomain |-> "",
                   err |-> <<"got invalid delivery service type '", s.dsTypeStr>>]
             ELSE ScanCDNDS(rows, i + 1,
                    [dses |-> Append(acc.dses,
                                [Name |-> s.Name, Protocol |-> s.Protocol,
                                 Type |-> dsType, RoutingName |-> s.RoutingName]),
                     cdnDomain |-> s.cdnDomain])

\* lines 152-181; queryErr: tx.Query failed
getCDNDeliveryServices(queryErr, rows) ==
    IF queryErr
    THEN [dses |-> << >>, cdnDomain |-> "",
          err |-> <<"getting cdn delivery services: ", "db">>]
    ELSE ScanCDNDS(rows, 1, NoDSes)

(* ---------------- the delivery services' keys (lines 111-137) ---------- *)

\* dsNames: lines 111-114
DSNamesOf(ds) == [i \in 1 .. Len(ds) |-> ds[i].Name]

\* deliveryservice.GetDeliveryServicesMatchLists: the match lists of the named
\* delivery services that have regexes
GetDeliveryServicesMatchLists(dsNames, dbMatchLists) ==
    [n \in Range(dsNames) \cap DOMAIN dbMatchLists |-> dbMatchLists[n]]

\* deliveryservice.MakeExampleURLs: one URL per HOST_REGEXP entry, none for a
\* type that is neither HTTP nor DNS
MakeExampleURLs(protocol, dsType, routingName, matchlist, cdnDomain) ==
    IF ~IsHTTP(dsType) /\ ~IsDNS(dsType) THEN << >>
    ELSE LET hosts == SelectSeq(matchlist, LAMBDA m : m.type = "HOST_REGEXP")
         IN  [i \in 1 .. Len(hosts) |-> <<"http://", routingName, hosts[i].pattern, cdnDomain>>]

\* deliveryservice.CreateDNSSECKeys: a fresh KSK and ZSK for the delivery
\* service, or an error (no example URL to sign, key generation failed)
CreateDNSSECKeys(name, exampleURLs, cdnKeys, kExp, zExp, ttl, now, cryptoFails) ==
    IF Len(exampleURLs) = 0
    THEN [err |-> <<"MatchListError: no HOST_REGEXP entry">>, keys |-> ZeroKeySet]
    ELSE IF cryptoFails
    THEN [err |-> <<"CryptoError">>, keys |-> ZeroKeySet]
    ELSE [err |-> NoErr,
          keys |-> DNSSECKeySet(
              <<DNSSECKey(name, "ZSK", "minted", DNSSECStatusNew, now, now + zExp,
                          DurationToSeconds(ttl))>>,
              <<DNSSECKey(name, "KSK", "minted", DNSSECStatusNew, now, now + kExp,
                          DurationToSeconds(ttl))>>)]

\* lines 119-137: the loop over dses, from delivery service i on; p holds the
\* values the loop does not change
RECURSIVE DSKeysLoop(_, _, _, _)
DSKeysLoop(ds, i, acc, p) ==
    IF i > Len(ds) THEN [err |-> NoErr, newKeys |-> acc]
    ELSE IF ~IsHTTP(ds[i].Type) /\ ~IsDNS(ds[i].Type)
    THEN DSKeysLoop(ds, i + 1, acc, p)
    ELSE IF ds[i].Name \notin DOMAIN p.matchLists
    THEN [err |-> <<"no regex match list found for delivery service '", ds[i].Name>>,
          newKeys |-> acc]
    ELSE LET exampleURLs == MakeExampleURLs(ds[i].Protocol, ds[i].Type, ds[i].RoutingName,
                                            p.matchLists[ds[i].Name], p.cdnDomain)
             dsKeys == CreateDNSSECKeys(ds[i].Name, exampleURLs, p.cdnKeys, p.kExp, p.zExp,
                                        p.ttl, p.now, ds[i].Name \in p.cryptoFails)
         IN  IF dsKeys.err # NoErr
             THEN [err |-> <<"creating delivery service DNSSEC keys: ">> \o dsKeys.err,
                   newKeys |-> acc]
             ELSE DSKeysLoop(ds, i + 1, MapPut(acc, ds[i].Name, dsKeys.keys), p)

(* --------------------------- riaksvc (KeyStore) ------------------------ *)

\* riaksvc.GetDNSSECKeys: (bundle, found, error) for the key (cdnName, "dnssec")
GetDNSSECKeys(store, cdnName, riakFails) ==
    IF riakFails THEN [keys |-> EmptyMap, exists |-> FALSE, err |-> <<"riak">>]
    ELSE IF cdnName \in DOMAIN store
    THEN [keys |-> store[cdnName], exists |-> TRUE, err |-> NoErr]
    ELSE [keys |-> EmptyMap, exists |-> FALSE, err |-> NoErr]

\* riaksvc.PutDNSSECKeys: the whole bundle replaces the value of the key
PutDNSSECKeys(store, keys, cdnName) == MapPut(store, cdnName, keys)

(* ------------- generateStoreDNSSECKeys, call by call ------------------- *)

\* OldKeysStep with the else branch of line 102 creating an empty CDN entry
\* instead of returning the error
OldKeysStepCreatesMissing(got, cdnName, ttlSeconds, effectiveDateUnix) ==
    IF got.err # NoErr
    THEN [err |-> <<"getting old dnssec keys: ">> \o got.err, newKeys |-> EmptyMap]
    ELSE [err |-> NoErr,
          newKeys |-> MapPut(EmptyMap, cdnName,
                             NewCDNKeySet(got.keys, cdnName, ttlSeconds, effectiveDateUnix))]

\* OldKeysStep with newKeys starting as the old bundle instead of empty
OldKeysStepKeepsOld(got, cdnName, ttlSeconds, effectiveDateUnix) ==
    IF got.err # NoErr
    THEN [err |-> <<"getting old dnssec keys: ">> \o got.err, newKeys |-> EmptyMap]
    ELSE IF got.exists
    THEN [err |-> NoErr,
          newKeys |-> MapPut(got.keys, cdnName,
                             NewCDNKeySet(got.keys, cdnName, ttlSeconds, effectiveDateUnix))]
    ELSE [err |-> <<"getting DNSSec keys from Riak: ", "no DNSSec keys for CDN">>,
          newKeys |-> EmptyMap]

\* lines 79-106: from the result of the get to newKeys, or the error returned
OldKeysStep(got, cdnName, ttlSeconds, effectiveDateUnix) ==
    IF got.err # NoErr
    THEN [err |-> <<"getting old dnssec keys: ">> \o got.err, newKeys |-> EmptyMap]
    ELSE IF got.exists
    THEN [err |-> NoErr,
          newKeys |-> MapPut(EmptyMap, cdnName,
                             NewCDNKeySet(got.keys, cdnName, ttlSeconds, effectiveDateUnix))]
    ELSE [err |-> <<"getting DNSSec keys from Riak: ", "no DNSSec keys for CDN">>,
          newKeys |-> EmptyMap]

\* api.HandleErr(w, r, code, nil, sysErr) followed by the handler's return
HandleErr(r, code, sysErr) ==
    /\ resp' = [resp EXCEPT ![r] = [code |-> code, sysErr |-> sysErr]]
    /\ pc' = [pc EXCEPT ![r] = "close"]

\* lines 57-59: generateStoreDNSSECKeys returned err
RotateFailed(r, err) ==
    HandleErr(r, StatusInternalServerError,
              <<"generating and storing DNSSEC CDN keys: ">> \o err)

\* f without what it holds of the requests that have finished
Forget(f, none) == [q \in Reqs |-> IF pc[q] = "done" THEN none ELSE f[q]]

\* lines 41-46: api.NewInfo opens the transaction, or fails before any defer
NewInfo(r) ==
    /\ pc[r] = "idle"
    /\ \E ok \in BOOLEAN :
        IF ok
        THEN /\ tx' = [Forget(tx, "nil") EXCEPT ![r] = "open"]
             /\ pc' = [pc EXCEPT ![r] = "parse"]
             /\ resp' = Forget(resp, NoResp)
        ELSE /\ resp' = [Forget(resp, NoResp) EXCEPT ![r] =
                    [code |-> StatusInternalServerError, sysErr |-> <<"api.NewInfo">>]]
             /\ pc' = [pc EXCEPT ![r] = "done"]
             /\ tx' = Forget(tx, "nil")
    /\ kvAtCall' = Forget(kvAtCall, NoCall)
    /\ commitTx' = Forget(commitTx, FALSE)
    /\ UNCHANGED <<kv, db, req, newKeys, dses, matchLists>>
    /\ cluster' = Forget(cluster, "none")
    /\ UNCHANGED <<txLog, changeLog, lookup>>

\* lines 48-56: parse the body, default the effective date to now
Parse(r) ==
    /\ pc[r] = "parse"
    /\ \E ok \in BOOLEAN, key \in CDNNames, ttl \in TTLs, k \in KSKDays, z \in ZSKDays,
          given \in Times \cup {NoDate}, now \in Times :
        IF ok
        THEN /\ req' = [req EXCEPT ![r] =
                    [key |-> key, ttl |-> ttl, kExpDays |-> k, zExpDays |-> z,
                     effectiveDate |-> IF given = NoDate THEN now ELSE given]]
             /\ kvAtCall' = [kvAtCall EXCEPT ![r] =
                    [called |-> TRUE, cdnName |-> key, kv |-> kv]]
             /\ pc' = [pc EXCEPT ![r] = "get"]
             /\ UNCHANGED resp
        ELSE /\ resp' = [resp EXCEPT ![r] = [code |-> StatusBadRequest,
                                             sysErr |-> NoErr]]
             /\ pc' = [pc EXCEPT ![r] = "close"]
             /\ UNCHANGED <<req, kvAtCall>>
    /\ UNCHANGED <<kv, db, tx, commitTx, newKeys, dses, matchLists>>
    /\ UNCHANGED <<cluster, txLog, changeLog, lookup>>

\* lines 79-106: read the old bundle, build the CDN's entry of the new one
GetOldKeys(r) ==
    /\ pc[r] = "get"
    /\ \E riakFails \in BOOLEAN :
        LET res == OldKeysStep(GetDNSSECKeys(kv, req[r].key, riakFails), req[r].key,
                               req[r].ttl, req[r].effectiveDate)
        IN  IF res.err # NoErr
            THEN RotateFailed(r, res.err) /\ UNCHANGED newKeys
            ELSE /\ newKeys' = [newKeys EXCEPT ![r] = res.newKeys]
                 /\ pc' = [pc EXCEPT ![r] = "dses"]
                 /\ UNCHANGED resp
    /\ UNCHANGED <<kv, db, req, tx, commitTx, dses, matchLists, kvAtCall>>
    /\ UNCHANGED <<cluster, txLog, changeLog, lookup>>

\* lines 107-110; d: the database at the time of the query
GetCDNDS(r) ==
    /\ pc[r] = "dses"
    /\ \E queryErr \in BOOLEAN, d \in DBStates :
        LET res == getCDNDeliveryServices(queryErr, d.rows)
        IN  /\ db' = [db EXCEPT ![r] = d]
            /\ IF res.err # NoErr
               THEN RotateFailed(r, <<"getting cdn delivery services: ">> \o res.err)
                    /\ UNCHANGED dses
               ELSE /\ dses' = [dses EXCEPT ![r] = [dses |-> res.dses,
                                                    cdnDomain |-> res.cdnDomain]]
                    /\ pc' = [pc EXCEPT ![r] = "matchlists"]
                    /\ UNCHANGED resp
    /\ UNCHANGED <<kv, req, tx, commitTx, newKeys, matchLists, kvAtCall>>
    /\ UNCHANGED <<cluster, txLog, changeLog, lookup>>

\* lines 111-118
GetMatchLists(r) ==
    /\ pc[r] = "matchlists"
    /\ \E queryErr \in BOOLEAN :
        IF queryErr
        THEN RotateFailed(r, <<"getting delivery service matchlists: ", "db">>)
             /\ UNCHANGED matchLists
        ELSE /\ matchLists' = [matchLists EXCEPT ![r] =
                    GetDeliveryServicesMatchLists(DSNamesOf(dses[r].dses), db[r].matchLists)]
             /\ pc' = [pc EXCEPT ![r] = "dskeys"]
             /\ UNCHANGED resp
    /\ UNCHANGED <<kv, db, req, tx, commitTx, newKeys, dses, kvAtCall>>
    /\ UNCHANGED <<cluster, txLog, changeLog, lookup>>

\* lines 106 and 119-137
CreateDSKeys(r) ==
    /\ pc[r] = "dskeys"
    /\ \E now \in Times, cryptoFails \in SUBSET DSNames :
        LET res == DSKeysLoop(dses[r].dses, 1, newKeys[r],
                     [matchLists |-> matchLists[r], cdnDomain |-> dses[r].cdnDomain,
                      cdnKeys |-> newKeys[r][req[r].key],
                      kExp |-> req[r].kExpDays * SecondsPerDay,
                      zExp |-> req[r].zExpDays * SecondsPerDay,
                      ttl |-> SecondsToDuration(req[r].ttl), now |-> now,
                      cryptoFails |-> cryptoFails])
        IN  IF res.err # NoErr
            THEN RotateFailed(r, res.err) /\ UNCHANGED newKeys
            ELSE /\ newKeys' = [newKeys EXCEPT ![r] = res.newKeys]
                 /\ pc' = [pc EXCEPT ![r] = "put"]
                 /\ UNCHANGED resp
    /\ UNCHANGED <<kv, db, req, tx, commitTx, dses, matchLists, kvAtCall>>
    /\ UNCHANGED <<cluster, txLog, changeLog, lookup>>

\* PutKeys with a put that merges: the record the request appended is added
\* to the sequences the store holds, instead of the bundle replacing them
PutKeysMerging(r) ==
    /\ pc[r] = "put"
    /\ \E riakFails \in BOOLEAN :
        IF riakFails
        THEN RotateFailed(r, <<"putting Riak DNSSEC CDN keys: ", "riak">>)
             /\ UNCHANGED kv
        ELSE /\ LET c == req[r].key
                    mine == newKeys[r][c]
                    last(q) == IF Len(q) > 0 THEN <<q[Len(q)]>> ELSE << >>
                    held == IF c \in DOMAIN kv /\ c \in DOMAIN kv[c]
                            THEN kv[c][c] ELSE ZeroKeySet
                IN  kv' = PutDNSSECKeys(kv,
                            MapPut(newKeys[r], c,
                                   DNSSECKeySet(held.ZSK \o last(mine.ZSK),
                                                held.KSK \o last(mine.KSK))), c)
             /\ pc' = [pc EXCEPT ![r] = "respond"]
             /\ UNCHANGED resp
    /\ UNCHANGED <<db, req, tx, commitTx, newKeys, dses, matchLists, kvAtCall>>
    /\ UNCHANGED <<cluster, txLog, changeLog, lookup>>

\* lines 138-141
PutKeys(r) ==
    /\ pc[r] = "put"
    /\ \E riakFails \in BOOLEAN :
        IF riakFails
        THEN RotateFailed(r, <<"putting Riak DNSSEC CDN keys: ", "riak">>)
             /\ UNCHANGED kv
        ELSE /\ kv' = PutDNSSECKeys(kv, newKeys[r], req[r].key)
             /\ pc' = [pc EXCEPT ![r] = "respond"]
             /\ UNCHANGED resp
    /\ UNCHANGED <<db, req, tx, commitTx, newKeys, dses, matchLists, kvAtCall>>
    /\ UNCHANGED <<cluster, txLog, changeLog, lookup>>

\* lines 61-62: the rotation returned nil
WriteResp(r) ==
    /\ pc[r] = "respond"
    /\ commitTx' = [commitTx EXCEPT ![r] = TRUE]
    /\ resp' = [resp EXCEPT ![r] = [code |-> StatusOK, sysErr |-> NoErr]]
    /\ pc' = [pc EXCEPT ![r] = "close"]
    /\ UNCHANGED <<kv, db, req, tx, newKeys, dses, matchLists, kvAtCall>>
    /\ UNCHANGED <<cluster, txLog, changeLog, lookup>>

\* Close with a compensation: when the transaction does not commit, the store
\* is put back as the request found it
CloseCompensating(r) ==
    /\ pc[r] = "close"
    /\ \E commitFails \in BOOLEAN :
        LET t == TxEnd(FinishTx(tx[r], commitTx[r]), commitFails)
        IN  /\ tx' = [tx EXCEPT ![r] = t]
            /\ changeLog' = IF t = "committed" THEN changeLog \o txLog[r]
                                                ELSE changeLog
            /\ kv' = IF t = "committed" \/ kvAtCall[r].cdnName = "" THEN kv
                                                                  ELSE kvAtCall[r].kv
    /\ txLog' = [txLog EXCEPT ![r] = << >>]
    /\ db' = [db EXCEPT ![r] = NoDB]
    /\ req' = [req EXCEPT ![r] = NoReq]
    /\ newKeys' = [newKeys EXCEPT ![r] = EmptyMap]
    /\ dses' = [dses EXCEPT ![r] = NoDSes]
    /\ matchLists' = [matchLists EXCEPT ![r] = EmptyMap]
    /\ pc' = [pc EXCEPT ![r] = "done"]
    /\ UNCHANGED <<commitTx, resp, kvAtCall, cluster, lookup>>

\* lines 46 and 189, deferred: inf.Close() finishes the transaction, and what
\* was inserted in it is committed or lost with it; the handler's locals end
Close(r) ==
    /\ pc[r] = "close"
    /\ \E commitFails \in BOOLEAN :
        LET t == TxEnd(FinishTx(tx[r], commitTx[r]), commitFails)
        IN  /\ tx' = [tx EXCEPT ![r] = t]
            /\ changeLog' = IF t = "committed" THEN changeLog \o txLog[r]
                                                ELSE changeLog
    /\ txLog' = [txLog EXCEPT ![r] = << >>]
    /\ db' = [db EXCEPT ![r] = NoDB]
    /\ req' = [req EXCEPT ![r] = NoReq]
    /\ newKeys' = [newKeys EXCEPT ![r] = EmptyMap]
    /\ dses' = [dses EXCEPT ![r] = NoDSes]
    /\ matchLists' = [matchLists EXCEPT ![r] = EmptyMap]
    /\ pc' = [pc EXCEPT ![r] = "done"]
    /\ UNCHANGED <<kv, commitTx, resp, kvAtCall, cluster, lookup>>

(* -------------------------- DeleteDNSSECKeys --------------------------- *)

\* riaksvc.DeleteObject(key, CDNDNSSECKeyType, cluster): the object is gone
\* afterwards, whether or not there was one
DeleteObject(store, key) ==
    [x \in (DOMAIN store) \ {key} |-> store[x]]

\* the row api.CreateChangeLogRawTx inserts
ChangeLogRow(key) ==
    [level |-> ApiChange, message |-> <<"Deleted DNSSEC keys for CDN ", key>>]

\* lines 184-191: api.NewInfo with the required parameter "name"
DeleteNewInfo(r) ==
    /\ pc[r] = "idle"
    /\ \E ok \in BOOLEAN, name \in CDNNames :
        IF ok
        THEN /\ tx' = [Forget(tx, "nil") EXCEPT ![r] = "open"]
             /\ req' = [req EXCEPT ![r] = [NoReq EXCEPT !.key = name]]
             /\ kvAtCall' = [Forget(kvAtCall, NoCall) EXCEPT ![r] =
                    [called |-> FALSE, cdnName |-> name, kv |-> kv]]
             /\ pc' = [pc EXCEPT ![r] = "cluster"]
             /\ resp' = Forget(resp, NoResp)
        ELSE /\ resp' = [Forget(resp, NoResp) EXCEPT ![r] =
                    [code |-> StatusInternalServerError, sysErr |-> <<"api.NewInfo">>]]
             /\ kvAtCall' = Forget(kvAtCall, NoCall)
             /\ pc' = [pc EXCEPT ![r] = "done"]
             /\ tx' = Forget(tx, "nil")
             /\ UNCHANGED req
    /\ cluster' = Forget(cluster, "none")
    /\ commitTx' = Forget(commitTx, FALSE)
    /\ UNCHANGED <<kv, db, newKeys, dses, matchLists, txLog, changeLog, lookup>>

\* lines 193-197
GetRiakClusterTx(r) ==
    /\ pc[r] = "cluster"
    /\ \E fails \in BOOLEAN :
        IF fails
        THEN /\ HandleErr(r, StatusInternalServerError,
                          <<"getting riak cluster: ", "riak">>)
             /\ UNCHANGED cluster
        ELSE /\ cluster' = [cluster EXCEPT ![r] = "obtained"]
             /\ pc' = [pc EXCEPT ![r] = "start"]
             /\ UNCHANGED resp
    /\ UNCHANGED <<kv, db, req, tx, commitTx, newKeys, dses, matchLists, kvAtCall,
                   txLog, changeLog, lookup>>

\* lines 198-202: riakCluster.Start(); the stop is deferred only once the
\* start has succeeded, so the return of line 200 runs no stop
StartCluster(r) ==
    /\ pc[r] = "start"
    /\ \E fails \in BOOLEAN :
        IF fails
        THEN /\ HandleErr(r, StatusInternalServerError,
                          <<"starting riak cluster: ", "riak">>)
             /\ cluster' = [cluster EXCEPT ![r] = "startfailed"]
        ELSE /\ cluster' = [cluster EXCEPT ![r] = "started"]
             /\ pc' = [pc EXCEPT ![r] = "delete"]
             /\ UNCHANGED resp
    /\ UNCHANGED <<kv, db, req, tx, commitTx, newKeys, dses, matchLists, kvAtCall,
                   txLog, changeLog, lookup>>

\* DeleteKeys with a delete that reports a missing object as an error
DeleteKeysAbsentFails(r) ==
    /\ pc[r] = "delete"
    /\ \E riakFails \in BOOLEAN :
        IF riakFails \/ req[r].key \notin DOMAIN kv
        THEN /\ resp' = [resp EXCEPT ![r] =
                    [code |-> StatusInternalServerError,
                     sysErr |-> <<"deleting cdn dnssec keys: ",
                                  IF riakFails THEN "riak" ELSE "not found">>]]
             /\ pc' = [pc EXCEPT ![r] = "stop"]
             /\ UNCHANGED kv
        ELSE /\ kv' = DeleteObject(kv, req[r].key)
             /\ pc' = [pc EXCEPT ![r] = "deleted"]
             /\ UNCHANGED resp
    /\ UNCHANGED <<db, req, tx, commitTx, newKeys, dses, matchLists, kvAtCall,
                   cluster, txLog, changeLog, lookup>>

\* lines 204-207; the deferred StopCluster runs before the deferred Close
DeleteKeys(r) ==
    /\ pc[r] = "delete"
    /\ \E riakFails \in BOOLEAN :
        IF riakFails
        THEN /\ resp' = [resp EXCEPT ![r] =
                    [code |-> StatusInternalServerError,
                     sysErr |-> <<"deleting cdn dnssec keys: ", "riak">>]]
             /\ pc' = [pc EXCEPT ![r] = "stop"]
             /\ UNCHANGED kv
        ELSE /\ kv' = DeleteObject(kv, req[r].key)
             /\ pc' = [pc EXCEPT ![r] = "deleted"]
             /\ UNCHANGED resp
    /\ UNCHANGED <<db, req, tx, commitTx, newKeys, dses, matchLists, kvAtCall,
                   cluster, txLog, changeLog, lookup>>

\* lines 208-210: the commit flag, the change-log row inserted in the
\* transaction, the answer
DeleteRespond(r) ==
    /\ pc[r] = "deleted"
    /\ commitTx' = [commitTx EXCEPT ![r] = TRUE]
    /\ txLog' = [txLog EXCEPT ![r] = Append(@, ChangeLogRow(req[r].key))]
    /\ resp' = [resp EXCEPT ![r] = [code |-> StatusOK, sysErr |-> NoErr]]
    /\ pc' = [pc EXCEPT ![r] = "stop"]
    /\ UNCHANGED <<kv, db, req, tx, newKeys, dses, matchLists, kvAtCall,
                   cluster, changeLog, lookup>>

\* line 202, deferred: riaksvc.StopCluster(riakCluster)
StopCluster(r) ==
    /\ pc[r] = "stop"
    /\ cluster' = [cluster EXCEPT ![r] = "stopped"]
    /\ pc' = [pc EXCEPT ![r] = "close"]
    /\ UNCHANGED <<kv, db, req, tx, commitTx, newKeys, dses, matchLists, resp,
                   kvAtCall, txLog, changeLog, lookup>>

\* the requests of Spec are served one after the other
MayStart(r) == \A q \in Reqs : q < r => pc[q] = "done"

StartRequest(r) == MayStart(r) /\ NewInfo(r)

Next ==
    \E r \in Reqs :
        \/ StartRequest(r)
        \/ Parse(r)
        \/ GetOldKeys(r)
        \/ GetCDNDS(r)
        \/ GetMatchLists(r)
        \/ CreateDSKeys(r)
        \/ PutKeys(r)
        \/ WriteResp(r)
        \/ Close(r)

Spec == Init /\ [][Next]_vars

\* both handlers of the API, one request after the other
StartDelete(r) == MayStart(r) /\ DeleteNewInfo(r)

NextAPI ==
    \E r \in Reqs :
        \/ StartRequest(r)
        \/ Parse(r)
        \/ GetOldKeys(r)
        \/ GetCDNDS(r)
        \/ GetMatchLists(r)
        \/ CreateDSKeys(r)
        \/ PutKeys(r)
        \/ WriteResp(r)
        \/ StartDelete(r)
        \/ GetRiakClusterTx(r)
        \/ StartCluster(r)
        \/ DeleteKeys(r)
        \/ DeleteRespond(r)
        \/ StopCluster(r)
        \/ Close(r)

SpecAPI == Init /\ [][NextAPI]_vars

\* two rotations served concurrently: nothing orders the steps of the two
\* requests.  The store starts with a bundle whose CDN sequences hold one
\* head each, of the same generation.
ConcReqs == {1, 2}

ConcInitKV ==
    {b \in {[c \in CDNNames |-> [x \in {CDNName} |-> DNSSECKeySet(<<z>>, <<k>>)]] :
                z \in OldHeads("ZSK"), k \in OldHeads("KSK")} :
        /\ b[CDNName][CDNName].ZSK[1].status = b[CDNName][CDNName].KSK[1].status
        /\ b[CDNName][CDNName].ZSK[1].expiration = b[CDNName][CDNName].KSK[1].expiration}

InitConc == Init /\ kv \in ConcInitKV

NextConc ==
    \E r \in ConcReqs :
        \/ NewInfo(r)
        \/ Parse(r)
        \/ GetOldKeys(r)
        \/ GetCDNDS(r)
        \/ GetMatchLists(r)
        \/ CreateDSKeys(r)
        \/ PutKeys(r)
        \/ WriteResp(r)
        \/ Close(r)

SpecConc == InitConc /\ [][NextConc]_vars

\* a rotation and a Delete served concurrently: CreateDNSSECKeys runs as one
\* request and DeleteDNSSECKeys as the other, and nothing orders the steps
\* of the two
RotateReq == 1

DeleteReq == 2

NextRace ==
    \/ NewInfo(RotateReq)
    \/ Parse(RotateReq)
    \/ GetOldKeys(RotateReq)
    \/ GetCDNDS(RotateReq)
    \/ GetMatchLists(RotateReq)
    \/ CreateDSKeys(RotateReq)
    \/ PutKeys(RotateReq)
    \/ WriteResp(RotateReq)
    \/ DeleteNewInfo(DeleteReq)
    \/ GetRiakClusterTx(DeleteReq)
    \/ StartCluster(DeleteReq)
    \/ DeleteKeys(DeleteReq)
    \/ DeleteRespond(DeleteReq)
    \/ StopCluster(DeleteReq)
    \/ \E r \in {RotateReq, DeleteReq} : Close(r)

SpecRace == InitConc /\ [][NextRace]_vars

(* ------------------------- dbhelpers lookups --------------------------- *)

\* sql.ErrNoRows
ErrNoRows == "sql: no rows in result set"

\* any other error of QueryRow(...).Scan
ErrOther == "pq: could not connect to server"

StrVals == {"", "a", "b"}

IDs == 0 .. MaxID

\* tx.QueryRow(...).Scan(&a): the error, and what a holds afterwards
ScanStr ==
    {[err |-> "", dest |-> <<v>>] : v \in StrVals}
    \cup {[err |-> ErrNoRows, dest |-> <<"">>], [err |-> ErrOther, dest |-> <<"">>]}

ScanInt ==
    {[err |-> "", dest |-> <<v>>] : v \in IDs}
    \cup {[err |-> ErrNoRows, dest |-> <<0>>], [err |-> ErrOther, dest |-> <<0>>]}

\* Scan(&a, &b): an error at the second column leaves the first one assigned
ScanStrStr ==
    {[err |-> "", dest |-> <<v, w>>] : v \in StrVals, w \in StrVals}
    \cup {[err |-> ErrNoRows, dest |-> <<"", "">>]}
    \cup {[err |-> ErrOther, dest |-> <<v, "">>] : v \in StrVals}

LookupResult(vals, found, err) == [vals |-> vals, found |-> found, err |-> err]

\* GetParam that does not tell sql.ErrNoRows from the other errors
GetParamNoRowsIsError(q, name, configFile) ==
    IF q.err # ""
    THEN LookupResult(<<"">>, FALSE,
                      <<"Error querying global paramter '", name, "': ", q.err>>)
    ELSE LookupResult(<<q.dest[1]>>, TRUE, NoErr)

\* part_001 lines 168-178; q: what the query row's Scan did
GetParam(q, name, configFile) ==
    IF q.err # ""
    THEN IF q.err = ErrNoRows
         THEN LookupResult(<<"">>, FALSE, NoErr)
         ELSE LookupResult(<<"">>, FALSE,
                           <<"Error querying global paramter '", name, "': ", q.err>>)
    ELSE LookupResult(<<q.dest[1]>>, TRUE, NoErr)

\* lines 163-166
GetGlobalParam(q, name) == GetParam(q, name, "global")

\* lines 180-190
GetDSNameFromID(q, id) ==
    IF q.err # ""
    THEN IF q.err = ErrNoRows
         THEN LookupResult(<<"">>, FALSE, NoErr)
         ELSE LookupResult(<<"">>, FALSE,
                           <<"querying delivery service name: ", q.err>>)
    ELSE LookupResult(<<q.dest[1]>>, TRUE, NoErr)

\* lines 192-208
GetDSNameAndCDNFromID(q, id) ==
    IF q.err # ""
    THEN IF q.err = ErrNoRows
         THEN LookupResult(<<"", "">>, FALSE, NoErr)
         ELSE LookupResult(<<"", "">>, FALSE,
                           <<"querying delivery service name: ", q.err>>)
    ELSE LookupResult(<<q.dest[1], q.dest[2]>>, TRUE, NoErr)

\* lines 210-220
GetProfileNameFromID(id, q) ==
    IF q.err # ""
    THEN IF q.err = ErrNoRows
         THEN LookupResult(<<"">>, FALSE, NoErr)
         ELSE LookupResult(<<"">>, FALSE,
                           <<"querying profile name from id: ", q.err>>)
    ELSE LookupResult(<<q.dest[1]>>, TRUE, NoErr)

\* lines 222-232
GetProfileIDFromName(name, q) ==
    IF q.err # ""
    THEN IF q.err = ErrNoRows
         THEN LookupResult(<<0>>, FALSE, NoErr)
         ELSE LookupResult(<<0>>, FALSE,
                           <<"querying profile id from name: ", q.err>>)
    ELSE LookupResult(<<q.dest[1]>>, TRUE, NoErr)

\* what a caller's lookup leaves to look at
Looked(fn, arg, q, res) == [fn |-> fn, arg |-> arg, q |-> q, res |-> res]

\* the handlers above make no lookup, and a lookup touches none of their state
handlerVars ==
    <<kv, pc, db, req, tx, commitTx, newKeys, dses, matchLists, resp, kvAtCall,
      cluster, txLog, changeLog>>

CallGetParam ==
    /\ \E q \in ScanStr, name \in StrVals \ {""},
          configFile \in {"global", "CRConfig.json"} :
        lookup' = Looked("GetParam", <<name, configFile>>, q,
                         GetParam(q, name, configFile))
    /\ UNCHANGED handlerVars

CallGetGlobalParam ==
    /\ \E q \in ScanStr, name \in StrVals \ {""} :
        lookup' = Looked("GetGlobalParam", <<name>>, q, GetGlobalParam(q, name))
    /\ UNCHANGED handlerVars

CallGetDSNameFromID ==
    /\ \E q \in ScanStr, id \in IDs :
        lookup' = Looked("GetDSNameFromID", <<id>>, q, GetDSNameFromID(q, id))
    /\ UNCHANGED handlerVars

CallGetDSNameAndCDNFromID ==
    /\ \E q \in ScanStrStr, id \in IDs :
        lookup' = Looked("GetDSNameAndCDNFromID", <<id>>, q,
                         GetDSNameAndCDNFromID(q, id))
    /\ UNCHANGED handlerVars

CallGetProfileNameFromID ==
    /\ \E q \in ScanStr, id \in IDs :
        lookup' = Looked("GetProfileNameFromID", <<id>>, q,
                         GetProfileNameFromID(id, q))
    /\ UNCHANGED handlerVars

CallGetProfileIDFromName ==
    /\ \E q \in ScanInt, name \in StrVals \ {""} :
        lookup' = Looked("GetProfileIDFromName", <<name>>, q,
                         GetProfileIDFromName(name, q))
    /\ UNCHANGED handlerVars

InitLookups == Init /\ kv = EmptyMap

NextLookups ==
    \/ CallGetParam
    \/ CallGetGlobalParam
    \/ CallGetDSNameFromID
    \/ CallGetDSNameAndCDNFromID
    \/ CallGetProfileNameFromID
    \/ CallGetProfileIDFromName

SpecLookups == InitLookups /\ [][NextLookups]_vars

(* ------- lines 77 and 85-101 of generateStoreDNSSECKeys, on their own ---- *)

\* the CDN's new key set is computed from a bundle the get returned, for a
\* request with this ttl and effective date
CallNewCDNKeySet ==
    /\ \E oldKeys \in InitBundles, cdnName \in CDNNames,
          ttlSeconds \in TTLs \cup {LongTTL}, effectiveDateUnix \in Times :
        lookup' = Looked("NewCDNKeySet",
                         <<OldKeyCDN(oldKeys, cdnName), ttlSeconds, effectiveDateUnix>>,
                         NoLookup.q,
                         NewCDNKeySet(oldKeys, cdnName, ttlSeconds, effectiveDateUnix))
    /\ UNCHANGED handlerVars

NextKeySet == CallNewCDNKeySet

SpecKeySet == InitLookups /\ [][NextKeySet]_vars

(* ======================= properties of the handlers ==================== *)

\* generateStoreDNSSECKeys has returned to the handler, which has answered;
\* the deferred inf.Close() has not run yet
Returned(r) == pc[r] = "close" /\ kvAtCall[r].called

Succeeded(r) == Returned(r) /\ resp[r].code = StatusOK

Failed(r) == Returned(r) /\ resp[r].code # StatusOK

\* the handler has returned and no later request has started
JustDone(r) == pc[r] = "done" /\ kvAtCall[r].called

Says(r, part) == part \in Range(resp[r].sysErr)

\* the store had a bundle for the CDN when the rotation was called
HadBundle(r) == kvAtCall[r].cdnName \in DOMAIN kvAtCall[r].kv

\* a collaborator failed: the KV cluster, a database query, key generation
EnvFailed(r) == Says(r, "riak") \/ Says(r, "db") \/ Says(r, "CryptoError")

(* ------------------------------- C1 ------------------------------------ *)

\* C1, as stated: a rotation called for a CDN that has no bundle in the store
\* returns an error saying "no DNSSec keys for CDN", the handler answers 500,
\* nothing is put (the store still has no bundle) and the commit flag stays
\* false.
C1_ColdRotateRefuses_AsStated ==
    \A r \in Reqs :
        (kvAtCall[r].called /\ ~HadBundle(r)) =>
            /\ pc[r] \in {"get", "close", "done"}
            /\ ~commitTx[r]
            /\ kvAtCall[r].cdnName \notin DOMAIN kv
            /\ pc[r] \in {"close", "done"} =>
                /\ resp[r].code = StatusInternalServerError
                /\ Says(r, "no DNSSec keys for CDN")

\* C1, amended: a rotation called for a CDN that has no bundle in the store
\* never gets past the get, answers 500, puts nothing and leaves the commit
\* flag false; its error says "no DNSSec keys for CDN" whenever the get
\* itself succeeded, and "getting old dnssec keys" when the get failed.
C1_ColdRotateRefuses ==
    \A r \in Reqs :
        (kvAtCall[r].called /\ ~HadBundle(r)) =>
            /\ pc[r] \in {"get", "close", "done"}
            /\ ~commitTx[r]
            /\ kvAtCall[r].cdnName \notin DOMAIN kv
            /\ pc[r] \in {"close", "done"} =>
                /\ resp[r].code = StatusInternalServerError
                /\ IF Says(r, "riak")
                   THEN Says(r, "getting old dnssec keys: ")
                   ELSE Says(r, "no DNSSec keys for CDN")

\* a cold rotation whose get succeeded has been refused and has finished
C1_Witness ==
    \E r \in Reqs :
        /\ pc[r] = "done" /\ kvAtCall[r].called /\ ~HadBundle(r)
        /\ Says(r, "no DNSSec keys for CDN")
        /\ tx[r] = "rolledback"

(* ------------------------------- C2 ------------------------------------ *)

\* C2: a rotation that fails at any step leaves the bundle of its CDN as it
\* was when the rotation was called, through the handler's return, and its
\* transaction is rolled back, never committed.
C2_FailureLeavesStoreUntouched ==
    \A r \in Reqs :
        /\ Failed(r) => kv = kvAtCall[r].kv /\ ~commitTx[r] /\ tx[r] = "open"
        /\ (JustDone(r) /\ resp[r].code # StatusOK) =>
                kv = kvAtCall[r].kv /\ ~commitTx[r] /\ tx[r] = "rolledback"

\* a rotation that had built a new bundle failed at the put and has finished
C2_Witness ==
    \E r \in Reqs :
        /\ JustDone(r) /\ HadBundle(r)
        /\ Says(r, "putting Riak DNSSEC CDN keys: ")
        /\ kvAtCall[r].cdnName \in DOMAIN kv[kvAtCall[r].cdnName]
        /\ Len(kv[kvAtCall[r].cdnName][kvAtCall[r].cdnName].KSK) > 0
        /\ tx[r] = "rolledback"

(* ------------------------------- C3 ------------------------------------ *)

\* C3 has no formula here: getCDNDeliveryServices returns an error for every
\* row (RowsScan), so a rotation that saw a delivery service never succeeds
\* and the claim's case is not reachable.

(* --------------------------- C4 .. C10 --------------------------------- *)

\* the put of the rotation has succeeded and the handler has not returned
Wrote(r) == pc[r] = "respond" \/ Succeeded(r)

\* the CDN's own entry of the bundle the store held at the call
OldCDNSet(r) ==
    OldKeyCDN(kvAtCall[r].kv[kvAtCall[r].cdnName], kvAtCall[r].cdnName)

\* the bundle now in the store under the CDN's key
Written(r) == kv[kvAtCall[r].cdnName]

WrittenCDNSet(r) == Written(r)[kvAtCall[r].cdnName]

Eligible(row) == IsHTTP(row.type) \/ IsDNS(row.type)

\* the delivery service of the row has a match list with a HOST_REGEXP entry
UsableMatchList(d, row) ==
    /\ row.xml_id \in DOMAIN d.matchLists
    /\ \E i \in DOMAIN d.matchLists[row.xml_id] :
            d.matchLists[row.xml_id][i].type = "HOST_REGEXP"

\* C4, as stated: with a bundle whose CDN entry has n >= 1 KSKs and m >= 1 ZSKs
\* and a CDN of one or more delivery services, all HTTP, each with a match
\* list, the rotation answers 200 and writes n+1 KSKs, m+1 ZSKs and one entry
\* per delivery service (no collaborator failing).
C4_WarmRotateSucceeds ==
    \A r \in Reqs :
        ( /\ Returned(r) /\ HadBundle(r) /\ ~EnvFailed(r)
          /\ Len(OldCDNSet(r).KSK) >= 1 /\ Len(OldCDNSet(r).ZSK) >= 1
          /\ Len(db[r].rows) >= 1
          /\ \A i \in DOMAIN db[r].rows :
                IsHTTP(db[r].rows[i].type) /\ UsableMatchList(db[r], db[r].rows[i]) )
        => /\ resp[r].code = StatusOK
           /\ Len(WrittenCDNSet(r).KSK) = Len(OldCDNSet(r).KSK) + 1
           /\ Len(WrittenCDNSet(r).ZSK) = Len(OldCDNSet(r).ZSK) + 1
           /\ DOMAIN Written(r) =
                {kvAtCall[r].cdnName} \cup {db[r].rows[i].xml_id : i \in DOMAIN db[r].rows}

\* C5, as stated: after a successful rotation every key set of the written
\* bundle has at least one KSK and one ZSK, each headed by a key of status
\* "new", whatever bundle the store held before.
C5_EveryKeySetHasNewHeads ==
    \A r \in Reqs :
        Wrote(r) =>
            \A zone \in DOMAIN Written(r) :
                /\ Len(Written(r)[zone].KSK) >= 1
                /\ Len(Written(r)[zone].ZSK) >= 1
                /\ Written(r)[zone].KSK[1].status = DNSSECStatusNew
                /\ Written(r)[zone].ZSK[1].status = DNSSECStatusNew

\* the head of old is in new, behind index 0, with status "existing"
DemotedIn(old, new) ==
    \E i \in 2 .. Len(new) :
        /\ new[i].status = DNSSECStatusExisting
        /\ new[i].material = old[1].material
        /\ new[i].name = old[1].name
        /\ new[i].kind = old[1].kind
        /\ new[i].inception = old[1].inception

\* C6: after a successful rotation the head the CDN's KSK sequence had before
\* is in the written KSK sequence at an index >= 1 with status "existing", and
\* likewise for the ZSK sequence, each when its sequence was non-empty; an
\* empty sequence gets no record.
C6_DemotedHeadKept ==
    \A r \in Reqs :
        Wrote(r) =>
            /\ IF Len(OldCDNSet(r).KSK) > 0
               THEN DemotedIn(OldCDNSet(r).KSK, WrittenCDNSet(r).KSK)
               ELSE WrittenCDNSet(r).KSK = << >>
            /\ IF Len(OldCDNSet(r).ZSK) > 0
               THEN DemotedIn(OldCDNSet(r).ZSK, WrittenCDNSet(r).ZSK)
               ELSE WrittenCDNSet(r).ZSK = << >>

\* a rotation succeeded on a bundle with a KSK head of status "new" and no ZSK
C6_Witness ==
    \E r \in Reqs :
        /\ Succeeded(r)
        /\ Len(OldCDNSet(r).KSK) > 0 /\ OldCDNSet(r).KSK[1].status = DNSSECStatusNew
        /\ OldCDNSet(r).ZSK = << >>
        /\ DemotedIn(OldCDNSet(r).KSK, WrittenCDNSet(r).KSK)
        /\ WrittenCDNSet(r).ZSK = << >>

\* C7, as stated: after a successful rotation index 0 of the CDN's KSK and ZSK
\* sequences holds a key minted by this rotation, not the head of before, and
\* the head of before is behind it with status "existing".
C7_NewHeadMinted ==
    \A r \in Reqs :
        (Wrote(r) /\ Len(OldCDNSet(r).KSK) > 0 /\ Len(OldCDNSet(r).ZSK) > 0) =>
            /\ WrittenCDNSet(r).KSK[1] \notin Range(OldCDNSet(r).KSK)
            /\ WrittenCDNSet(r).ZSK[1] \notin Range(OldCDNSet(r).ZSK)
            /\ DemotedIn(OldCDNSet(r).KSK, WrittenCDNSet(r).KSK)
            /\ DemotedIn(OldCDNSet(r).ZSK, WrittenCDNSet(r).ZSK)

HeadCovers(keys, t) ==
    Len(keys) >= 1 => keys[1].inception <= t /\ t <= keys[1].expiration

\* C8, as stated: after a successful rotation with effective date E the head
\* of every sequence of the written bundle has inception <= E <= expiration.
C8_HeadCoversEffectiveDate ==
    \A r \in Reqs :
        Wrote(r) =>
            \A zone \in DOMAIN Written(r) :
                /\ HeadCovers(Written(r)[zone].KSK, req[r].effectiveDate)
                /\ HeadCovers(Written(r)[zone].ZSK, req[r].effectiveDate)

\* C9, as stated: delivery services that are neither HTTP nor DNS never make
\* the rotation fail, with or without a match list, and get no entry: a CDN
\* with a bundle and only such delivery services rotates with 200 (no
\* collaborator failing).
C9_IneligibleSkipped ==
    \A r \in Reqs :
        ( /\ Returned(r) /\ HadBundle(r) /\ ~EnvFailed(r)
          /\ Len(db[r].rows) >= 1
          /\ \A i \in DOMAIN db[r].rows : ~Eligible(db[r].rows[i]) )
        => /\ resp[r].code = StatusOK
           /\ \A i \in DOMAIN db[r].rows : db[r].rows[i].xml_id \notin DOMAIN Written(r)

\* C10, as stated: when an eligible delivery service has no usable match list
\* the rotation fails with a match-list error, the handler answers 500 and the
\* bundle in the store is unchanged (no collaborator failing).
C10_MissingMatchListFails ==
    \A r \in Reqs :
        ( /\ Returned(r) /\ HadBundle(r) /\ ~EnvFailed(r)
          /\ \E i \in DOMAIN db[r].rows :
                Eligible(db[r].rows[i]) /\ ~UsableMatchList(db[r], db[r].rows[i]) )
        => /\ resp[r].code = StatusInternalServerError
           /\ \/ Says(r, "no regex match list found for delivery service '")
              \/ Says(r, "MatchListError: no HOST_REGEXP entry")
           /\ kv = kvAtCall[r].kv

(* ==================== properties of DeleteDNSSECKeys =================== *)

\* r runs DeleteDNSSECKeys and is past api.NewInfo
IsDelete(r) == ~kvAtCall[r].called /\ kvAtCall[r].cdnName # ""

\* DeleteDNSSECKeys has written its answer
DelAnswered(r) == IsDelete(r) /\ resp[r].code # 0

DelSucceeded(r) == DelAnswered(r) /\ resp[r].code = StatusOK

\* C11: with the KV cluster reachable a Delete answers 200 whether or not
\* the bundle is there, the bundle is absent afterwards, and a Delete that
\* finds no bundle (as the second of two successive Deletes does) leaves the
\* store as it found it.
C11_DeleteIdempotent ==
    \A r \in Reqs :
        (DelAnswered(r) /\ ~Says(r, "riak")) =>
            /\ resp[r].code = StatusOK
            /\ kvAtCall[r].cdnName \notin DOMAIN kv
            /\ ~HadBundle(r) => kv = kvAtCall[r].kv

\* a Delete that follows a committed Delete, finds no bundle and answers 200
C11_Witness ==
    \E r \in Reqs :
        /\ DelSucceeded(r)
        /\ ~HadBundle(r)
        /\ Len(changeLog) > 0
        /\ kv = kvAtCall[r].kv

\* a get of the bundle of c, the cluster answering
Found(store, c) == GetDNSSECKeys(store, c, FALSE).exists

\* one step, seen from CDN c: a Delete that succeeds leaves no bundle, an
\* absent bundle stays absent, and a rotation that reads while the bundle is
\* absent is refused
C12_Step(c) ==
    /\ \A r \in Reqs :
          (pc[r] = "delete" /\ pc'[r] = "deleted" /\ req[r].key = c) => ~Found(kv', c)
    /\ ~Found(kv, c) => ~Found(kv', c)
    /\ \A r \in Reqs :
          (pc[r] = "get" /\ pc'[r] # "get" /\ req[r].key = c /\ ~Found(kv, c)) =>
              /\ pc'[r] = "close"
              /\ resp'[r].code = StatusInternalServerError
              /\ ~Says(r, "riak")' => Says(r, "no DNSSec keys for CDN")'

\* C12: once a Delete for a CDN name has succeeded the bundle is absent and
\* stays absent (nothing but a rotation could write it, and a rotation does
\* not create it): a get reports found=false, and the next rotation for the
\* name, whose get answers found=false, fails with "no DNSSec keys for CDN".
C12_DeletedStaysAbsent == [][\A c \in CDNNames : C12_Step(c)]_vars

\* a rotation refused after a Delete of the same name was committed
C12_Witness ==
    \E r \in Reqs :
        /\ Failed(r)
        /\ Says(r, "no DNSSec keys for CDN")
        /\ ~HadBundle(r)
        /\ Len(changeLog) > 0
        /\ changeLog[Len(changeLog)].message[2] = kvAtCall[r].cdnName
        /\ ~Found(kv, kvAtCall[r].cdnName)

(* ================== the transaction and the KV write =================== *)

TxCommitAttempted(t) == t \in {"committed", "commitfailed"}

\* one step of request r
C13_Step(r) ==
    \* the transaction is opened by api.NewInfo and finished by the deferred
    \* finish, nowhere else, so it is finished once
    /\ (tx'[r] # tx[r] /\ pc[r] # "done") =>
          \/ tx[r] = "nil" /\ tx'[r] = "open" /\ pc[r] = "idle"
          \/ /\ tx[r] = "open" /\ pc[r] = "close" /\ pc'[r] = "done"
             /\ TxCommitAttempted(tx'[r]) <=> commitTx[r]
             /\ tx'[r] = "rolledback" <=> ~commitTx[r]
    \* the deferred finish leaves no transaction open, and a nil one alone
    /\ (pc[r] = "close" /\ pc'[r] = "done") =>
          IF tx[r] = "nil" THEN tx'[r] = "nil" ELSE tx'[r] # "open"
    \* the flag is set only where the KV write has returned success
    /\ (~commitTx[r] /\ commitTx'[r]) => pc[r] \in {"respond", "deleted"}
    /\ (pc'[r] = "respond" /\ pc[r] # "respond") =>
          pc[r] = "put" /\ kv' = PutDNSSECKeys(kv, newKeys[r], req[r].key)
    /\ (pc'[r] = "deleted" /\ pc[r] # "deleted") =>
          pc[r] = "delete" /\ kv' = DeleteObject(kv, req[r].key)

\* C13: every handler execution finishes its transaction exactly once, by a
\* commit iff the commit flag is true when the deferred finish runs and by a
\* rollback otherwise (a nil transaction is left alone), and the flag becomes
\* true only after the KV put (generate) or KV delete (delete) of the same
\* request has returned success.
C13_CommitGated == [][\A r \in Reqs : C13_Step(r)]_vars

\* a Delete whose KV delete succeeded has been finished by a commit
C13_Witness ==
    \E r \in Reqs :
        /\ pc[r] = "done" /\ DelSucceeded(r) /\ HadBundle(r)
        /\ tx[r] = "committed" /\ commitTx[r]
        /\ ~Found(kv, kvAtCall[r].cdnName)

(* ======================== concurrent rotations ========================= *)

\* the requests whose put has succeeded and whose handler has not ended
Writers(c) == {r \in Reqs : Wrote(r) /\ req[r].key = c}

\* no request has ended yet, so every put so far is of a request of Writers
NoEndedWriter == \A q \in Reqs : pc[q] # "done"

\* every change of the value of a CDN's key is the put of one request, and the
\* value is then that request's whole bundle whatever the store held
C14_Step(c) ==
    (c \in DOMAIN kv' /\ (c \notin DOMAIN kv \/ kv'[c] # kv[c])) =>
        \E r \in Reqs : /\ pc[r] = "put" /\ pc'[r] = "respond"
                        /\ req[r].key = c
                        /\ kv'[c] = newKeys[r]
                        /\ \A q \in Reqs \ {r} : pc'[q] = pc[q]

\* C14: for every interleaving of two concurrent rotations of one cdnName the
\* stored value is, after every put, exactly the whole bundle of the rotation
\* that put last: while the rotations that have put are still in their
\* handlers the value is the bundle of one of them, never a mixture.
C14_LastWriterWins ==
    /\ [](\A c \in CDNNames :
            (NoEndedWriter /\ Writers(c) # {}) =>
                \E r \in Writers(c) : kv[c] = newKeys[r])
    /\ [][\A c \in CDNNames : C14_Step(c)]_vars

\* both rotations read the same bundle and both put: the sequences have grown
\* by one record, the first writer's record is not there
C14_Witness ==
    \E r, q \in Reqs :
        LET c == req[r].key
            old == kvAtCall[r].kv[c][c]
        IN  /\ r # q /\ Wrote(r) /\ Wrote(q) /\ req[q].key = c
            /\ kvAtCall[r].kv = kvAtCall[q].kv
            /\ newKeys[r] # newKeys[q]
            /\ kv[c] = newKeys[q]
            /\ Len(kv[c][c].KSK) = Len(old.KSK) + 1
            /\ Len(kv[c][c].ZSK) = Len(old.ZSK) + 1
            /\ Len(newKeys[r][c].KSK) = Len(old.KSK) + 1

\* one step: after its put has succeeded a rotation's remaining steps (the
\* answer, the deferred finish whatever becomes of the transaction) leave the
\* store alone, and the store changes only by a put or a delete
C15_Step ==
    /\ \A r \in Reqs :
          (kvAtCall[r].called /\ pc[r] \in {"respond", "close"} /\ pc'[r] # pc[r]) =>
              kv' = kv
    /\ kv' # kv =>
          \E q \in Reqs : \/ pc[q] = "put" /\ pc'[q] = "respond"
                          \/ pc[q] = "delete" /\ pc'[q] = "deleted"

\* C15: once the put of a rotation has succeeded no later step of that
\* request, a failing commit and a rollback included, deletes or reverts the
\* bundle: it stays until a later rotation or Delete replaces it.
C15_WriteIsAuthoritative == [][C15_Step]_vars

\* a rotation has ended, its commit refused by the database, and what it put
\* is in the store
C15_Witness ==
    \E r \in Reqs :
        /\ JustDone(r) /\ resp[r].code = StatusOK
        /\ tx[r] = "commitfailed"
        /\ Len(OldCDNSet(r).KSK) > 0
        /\ kv # kvAtCall[r].kv
        /\ DemotedIn(OldCDNSet(r).KSK, WrittenCDNSet(r).KSK)

(* ========================= the cluster session ========================= *)

\* C16, as stated: whenever a Delete handler has returned, the cluster handle
\* it obtained (if it obtained one) has been stopped, on the success path, on
\* the delete-error path and on the start-error path alike.
C16_SessionReleased ==
    \A r \in Reqs : pc[r] = "done" => cluster[r] \in {"none", "stopped"}

(* ============================ the audit log ============================ *)

\* the change log ends with a row about CDN c
LoggedLast(c) ==
    Len(changeLog) > 0 /\ c \in Range(changeLog[Len(changeLog)].message)

\* C17, as stated: a request that answered 200 (generate or delete alike) and
\* whose transaction committed has appended a change-log row, and a row is
\* inserted only by a request whose KV write has succeeded.
C17_AuditLogged ==
    \A r \in Reqs :
        /\ (pc[r] = "done" /\ kvAtCall[r].cdnName # "" /\ resp[r].code = StatusOK
              /\ tx[r] = "committed") => LoggedLast(kvAtCall[r].cdnName)
        /\ txLog[r] # << >> => resp[r].code = StatusOK

(* ========================= the metadata lookups ======================== *)

\* the zero values of what the lookup returns
ZeroVals(fn) ==
    IF fn = "GetDSNameAndCDNFromID" THEN <<"", "">>
    ELSE IF fn = "GetProfileIDFromName" THEN <<0>>
    ELSE <<"">>

\* C18: a lookup whose query found no row returns found=false, a nil error
\* and zero values; one whose query failed otherwise returns found=false
\* and a non-nil error; found=true comes only with a nil error.
C18_LookupsReportMissingRows ==
    lookup.fn # "" =>
        /\ lookup.q.err = ErrNoRows =>
                /\ ~lookup.res.found
                /\ lookup.res.err = NoErr
                /\ lookup.res.vals = ZeroVals(lookup.fn)
        /\ lookup.q.err \notin {"", ErrNoRows} =>
                ~lookup.res.found /\ lookup.res.err # NoErr
        /\ lookup.res.found => lookup.res.err = NoErr /\ lookup.q.err = ""

\* GetParam was asked for a parameter that has no row
C18_Witness ==
    /\ lookup.fn = "GetParam"
    /\ lookup.q.err = ErrNoRows
    /\ ~lookup.res.found /\ lookup.res.err = NoErr /\ lookup.res.vals = <<"">>

(* ===================== the CDN's own key set, rotated ================== *)

\* new is old with one record added at the end, which is old's head but for
\* the status, the ttl and the expiration; an empty sequence stays empty
AppendedDemotion(old, new, ttlSeconds, effectiveDateUnix) ==
    IF Len(old) = 0 THEN new = << >>
    ELSE /\ Len(new) = Len(old) + 1
         /\ \A i \in 1 .. Len(old) : new[i] = old[i]
         /\ new[Len(new)] = [old[1] EXCEPT !.status = DNSSECStatusExisting,
                                            !.ttl = ttlSeconds,
                                            !.expiration = effectiveDateUnix]

\* C19, as stated: the rotation leaves every record of the CDN's KSK and ZSK
\* sequences where it was, unchanged, and adds to each non-empty sequence one
\* record equal to the old head except for status "existing", ttl-seconds =
\* the request's ttl and expiration = the request's effective date.
C19_AppendOnly ==
    lookup.fn = "NewCDNKeySet" =>
        /\ AppendedDemotion(lookup.arg[1].KSK, lookup.res.KSK, lookup.arg[2], lookup.arg[3])
        /\ AppendedDemotion(lookup.arg[1].ZSK, lookup.res.ZSK, lookup.arg[2], lookup.arg[3])

(* ========================= the bundle, rebuilt ========================= *)

\* the eligible delivery services the query of this rotation returned
EligibleReturned(r) ==
    {dses[r].dses[i].Name : i \in {j \in DOMAIN dses[r].dses :
                                      Eligible([type |-> dses[r].dses[j].Type])}}

\* C20: the bundle a successful rotation wrote has exactly the zone names of
\* the CDN and of the eligible delivery services its query returned, so what
\* the old bundle held for any other name is gone, and the key set of every
\* such delivery service is the one this rotation created.
C20_BundleRebuilt ==
    \A r \in Reqs :
        Wrote(r) =>
            /\ DOMAIN Written(r) = {kvAtCall[r].cdnName} \cup EligibleReturned(r)
            /\ \A n \in EligibleReturned(r) \ {kvAtCall[r].cdnName} :
                    \A i \in DOMAIN Written(r)[n].KSK :
                        Written(r)[n].KSK[i].material = "minted"

\* the old bundle had an entry for a delivery service the query no longer
\* returns; the written bundle has the CDN's entry only
C20_Witness ==
    \E r \in Reqs :
        /\ Succeeded(r)
        /\ DSNamePool[1] \in DOMAIN kvAtCall[r].kv[kvAtCall[r].cdnName]
        /\ DOMAIN Written(r) = {kvAtCall[r].cdnName}

(* ==================== a Delete against a rotation ===================== *)

\* r ran the rotation, was called while the store still held the bundle of
\* its CDN, and its handler has returned
RotationEnded(r) == JustDone(r) /\ HadBundle(r)

\* d ran DeleteDNSSECKeys, answered 200, and its handler has returned
DeleteEnded(d) == DelSucceeded(d) /\ pc[d] = "done"

\* C21: a Delete that runs concurrently with a rotation for the same CDN name
\* is not undone by it: once the Delete has answered 200 and returned, and
\* the rotation that was called before the bundle was deleted has returned
\* too (no request having started since), the store holds no bundle for the
\* CDN.
C21_DeleteNotUndone ==
    \A d, r \in Reqs :
        (/\ DeleteEnded(d)
         /\ RotationEnded(r)
         /\ kvAtCall[r].cdnName = kvAtCall[d].cdnName) =>
            ~Found(kv, kvAtCall[d].cdnName)

====
